---- MODULE Spec2Model ----
(***************************************************************************)
(* A model of the `parsed` crate: the cursor buffer (src/src/stream.rs),   *)
(* the combinator core (src/src/matcher.rs, src/src/parser.rs) and the two *)
(* grammars built from it (src/src/http.rs, src/src/ws.rs).                *)
(*                                                                         *)
(* Bytes are integers 0..255.  A ByteStream is a record                    *)
(*   [buf |-> sequence of bytes, pos |-> read position,                    *)
(*    capacity |-> capacity of the backing Vec].                           *)
(* Every method of ByteStream is an operator from the stream (and its      *)
(* arguments) to the stream afterwards and the value returned.             *)
(***************************************************************************)
EXTENDS Integers, Sequences, FiniteSets, TLC

VARIABLES
    bs,     \* the ByteStream the caller owns
    marks,  \* positions of the Marks the caller holds (SpecBuf)
    op,     \* the operation that produced this state
    ret,    \* what that operation returned
    call,   \* the combinator application in progress (SpecComb)
    inp,    \* the input the run was started with (SpecHttp, SpecWs)
    out     \* the results of the top-level parses so far, oldest first

vars == <<bs, marks, op, ret, call, inp, out>>

----------------------------------------------------------------------------
(* Bounds of the model.                                                    *)

\* SpecBuf: capacity of the backing Vec, Marks held at once, bytes per put.
MaxCap == 4
MaxMarks == 1
MaxPut == 2

\* SpecComb: length of the stream, iterations of one repeat.
MaxBuf == 4
MaxIter == 5

\* SpecHttp: pieces after the blank line; calls of one top-level parse.
MaxTail == 3
MaxCalls == 2

\* SpecWs: small length classes, bytes after the head, bodies encoded.
MaxClass == 3
MaxRun == 6
MaxBody == 3

\* SpecIngest: calls in one run.
MaxOps == 4

\* SpecPut: typed writes in one run.
MaxWrites == 3

----------------------------------------------------------------------------
(* Helpers.                                                                *)

Min(a, b) == IF a < b THEN a ELSE b

\* s[from+1 .. to] with 0-based, end-exclusive indices, as a Rust slice s[from..to]
Slice(s, from, to) == SubSeq(s, from + 1, to)

\* all sequences over S of length at most n
SeqsUpTo(S, n) == UNION {[1..k -> S] : k \in 0..n}

\* the value an Option carries: ret.some says whether it is Some
None == [some |-> FALSE, val |-> <<>>, num |-> 0]
Some(v, n) == [some |-> TRUE, val |-> v, num |-> n]

----------------------------------------------------------------------------
(* src/src/stream.rs                                                       *)

\* ByteStream::wrap: owns the Vec (c is the capacity the Vec came with)
Wrap(b, c) == [buf |-> b, pos |-> 0, capacity |-> c]

\* ByteStream::with_capacity
WithCapacity(c) == [buf |-> <<>>, pos |-> 0, capacity |-> c]

\* ByteStream::len
BsLen(s) == Len(s.buf)

\* ByteStream::cap: room left for put
Cap(s) == s.capacity - Len(s.buf)

\* ByteStream::put: all of data or nothing; returns the stream and the count
Put(s, data) ==
    IF Cap(s) >= Len(data)
    THEN [bs |-> [s EXCEPT !.buf = s.buf \o data], n |-> Len(data)]
    ELSE [bs |-> s, n |-> 0]

\* write_u16 / write_u32 / write_u64: the bytes of b, from the last one
\* down: r[i] = b & 0xFF, b >>= 8
RECURSIVE WriteLoop(_, _, _)
WriteLoop(b, i, r) ==
    IF i = 0 THEN r ELSE WriteLoop(b \div 256, i - 1, [r EXCEPT ![i] = b % 256])

WriteUInt(b, w) == WriteLoop(b, w, [i \in 1..w |-> 0])

\* put_u8 .. put_32: put, and the count it returns compared with a number
PutU8(s, b) == [bs |-> Put(s, <<b>>).bs, ok |-> Put(s, <<b>>).n = 1]
PutU16(s, b) == [bs |-> Put(s, WriteUInt(b, 2)).bs, ok |-> Put(s, WriteUInt(b, 2)).n = 16]
PutU32(s, b) == [bs |-> Put(s, WriteUInt(b, 4)).bs, ok |-> Put(s, WriteUInt(b, 4)).n = 32]
PutU64(s, b) == [bs |-> Put(s, WriteUInt(b, 8)).bs, ok |-> Put(s, WriteUInt(b, 8)).n = 64]
Put16(s, b) == [bs |-> Put(s, b).bs, ok |-> Put(s, b).n = 16]
Put32(s, b) == [bs |-> Put(s, b).bs, ok |-> Put(s, b).n = 32]

\* a usize that TLC's integers cannot hold is written in two's complement:
\* n < 0 stands for 2^64 + n, so -1 is usize::MAX
UsizeTop == {-1, -2}

\* ByteStream::get: the next n bytes, or None with the stream untouched.
\* For n = 2^64 - k and pos >= k the sum pos + n overflows: with overflow
\* checks that is a panic; without them the sum wraps to pos - k, which is
\* at most len, and Vec::with_capacity(n) panics (capacity overflow).
Get(s, n) ==
    IF n < 0 /\ s.pos + n >= 0
    THEN [bs |-> s, some |-> FALSE, val |-> <<>>, panic |-> TRUE]
    ELSE IF n >= 0 /\ s.pos + n <= Len(s.buf)
    THEN [bs |-> [s EXCEPT !.pos = s.pos + n],
          some |-> TRUE, val |-> Slice(s.buf, s.pos, s.pos + n), panic |-> FALSE]
    ELSE [bs |-> s, some |-> FALSE, val |-> <<>>, panic |-> FALSE]

\* read_u16 / read_u32 / read_u64: fold (acc << 8) + b in a w-byte unsigned
\* (the shift drops the top byte, so the sum cannot overflow)
RECURSIVE ReadUInt(_, _, _)
ReadUInt(v, w, acc) ==
    IF v = <<>> THEN acc
    ELSE ReadUInt(Tail(v), w, (acc % (256 ^ (w - 1))) * 256 + Head(v))

\* get_u8 / get_u16 / get_u32 / get_u64: get(w) mapped through read_u<8w>
GetUInt(s, w) ==
    LET g == Get(s, w) IN
    [bs |-> g.bs, some |-> g.some, val |-> g.val,
     num |-> IF g.some THEN ReadUInt(g.val, w, 0) ELSE 0]

\* get_16 / get_32: get(w) copied into a [u8; w]
GetArr(s, w) == Get(s, w)

\* ByteStream::next
Next_(s) ==
    LET g == Get(s, 1) IN
    [bs |-> g.bs, some |-> g.some, val |-> g.val,
     num |-> IF g.some THEN g.val[1] ELSE 0]

\* ByteStream::mark: the Mark is the position
MarkOf(s) == s.pos

\* a reset that leaves the position where it is
ResetNoop(s, m) == s

\* a reset that does not check the mark against the position
ResetUnguarded(s, m) == [s EXCEPT !.pos = m]

\* ByteStream::reset: rewinds only
Reset(s, m) == IF m <= s.pos THEN [s EXCEPT !.pos = m] ELSE s

\* ByteStream::clear: Vec::clear keeps the capacity
Clear(s) == [s EXCEPT !.pos = 0, !.buf = <<>>]

\* a pull into a Vec that has room for the unread bytes only
PullShrink(s) ==
    IF s.pos > 0 /\ BsLen(s) > 0
    THEN [s EXCEPT !.buf = Slice(s.buf, s.pos, Len(s.buf)), !.pos = 0,
                   !.capacity = Len(s.buf) - s.pos]
    ELSE s

\* ByteStream::pull: drop the bytes before pos into a Vec of the same capacity
Pull(s) ==
    IF s.pos > 0 /\ BsLen(s) > 0
    THEN [s EXCEPT !.buf = Slice(s.buf, s.pos, Len(s.buf)), !.pos = 0]
    ELSE s

\* index of the first element of the sequence v that is b, 0 if none (1-based)
RECURSIVE IndexOf(_, _, _)
IndexOf(v, b, i) ==
    IF i > Len(v) THEN 0
    ELSE IF v[i] = b THEN i
    ELSE IndexOf(v, b, i + 1)

\* ByteStream::find_single with the predicate |c| *c == b: the absolute
\* index of the first b at or after pos
FindSingle(s, b) ==
    LET i == IndexOf(s.buf, b, s.pos + 1) IN
    IF i = 0 THEN [some |-> FALSE, idx |-> 0] ELSE [some |-> TRUE, idx |-> i - 1]

----------------------------------------------------------------------------
(* src/src/matcher.rs, src/src/parser.rs: the combinator core.             *)
(*                                                                         *)
(* A matcher is a record [k |-> its kind, a |-> .., b |-> ..]; do_match is *)
(* DoMatch(m, s), which returns                                            *)
(*   [ok |-> Ok or Err, val |-> the value, err |-> the MatchError,         *)
(*    bs |-> the stream afterwards].                                       *)

\* MatchError::unexpected / not_found / over_capacity.  The message is made
\* of the arguments: x is the expected byte or the delimiter or the bytes
\* available, y the bytes requested.  `single` and `one` always report the
\* byte got as "EOF".
NoErr == [kind |-> "none", offset |-> 0, x |-> 0, y |-> 0]
Unexpected(offset, expected) ==
    [kind |-> "Unexpected", offset |-> offset, x |-> expected, y |-> 0]
NotFound(offset, chr) ==
    [kind |-> "NotFound", offset |-> offset, x |-> chr, y |-> 0]
OverCapacity(offset, available, requested) ==
    [kind |-> "OverCapacity", offset |-> offset, x |-> available, y |-> requested]

Ok(v, s) == [ok |-> TRUE, val |-> v, err |-> NoErr, bs |-> s]
Err(e, s) == [ok |-> FALSE, val |-> <<>>, err |-> e, bs |-> s]

\* Option<T> as a value of a matcher
Absent == <<>>
Present(v) == <<v>>

\* unit(f)
Unit(v, s) == Ok(v, s)

\* one(b) and single(chr): next() consumes the byte before it is compared
One(b, s) ==
    LET pos == s.pos
        n == Next_(s)
    IN  IF n.some /\ n.num = b THEN Ok(b, n.bs) ELSE Err(Unexpected(pos, b), n.bs)

Single(chr, s) ==
    LET pos == s.pos
        n == Next_(s)
    IN  IF n.some /\ n.num = chr THEN Ok(chr, n.bs) ELSE Err(Unexpected(pos, chr), n.bs)

\* the loop of exact(slice): single for each byte, rewind to mark on the
\* first failure
RECURSIVE ExactLoop(_, _, _, _, _)
ExactLoop(slice, i, acc, mark, s) ==
    IF i > Len(slice) THEN Ok(acc, s)
    ELSE LET r == Single(slice[i], s) IN
         IF r.ok THEN ExactLoop(slice, i + 1, Append(acc, r.val), mark, r.bs)
         ELSE Err(r.err, Reset(r.bs, mark))

Exact(slice, s) == ExactLoop(slice, 1, <<>>, MarkOf(s), s)

\* string(s): exact over the bytes of s, with a mark and reset of its own
String(str, s) ==
    LET mark == MarkOf(s)
        r == Exact(str, s)
    IN  IF r.ok THEN r ELSE Err(r.err, Reset(r.bs, mark))

\* the loop of until(f), f being membership in the set ok
RECURSIVE UntilLoop(_, _, _)
UntilLoop(okset, acc, s) ==
    LET mark == MarkOf(s)
        n == Next_(s)
    IN  IF n.some /\ n.num \in okset
        THEN UntilLoop(okset, Append(acc, n.num), n.bs)
        ELSE Ok(acc, Reset(n.bs, mark))

Until(okset, s) == UntilLoop(okset, <<>>, s)

\* a before that reads the delimiter along with the bytes before it
BeforeConsuming(chr, s) ==
    LET pos == s.pos
        f == FindSingle(s, chr)
        g == Get(s, f.idx - pos + 1)
    IN  IF f.some /\ g.some THEN Ok(SubSeq(g.val, 1, Len(g.val) - 1), g.bs)
        ELSE Err(NotFound(pos, chr), s)

\* before(chr): the bytes up to the first chr, which stays unread
Before(chr, s) ==
    LET pos == s.pos
        f == FindSingle(s, chr)
        g == Get(s, f.idx - pos)
    IN  IF f.some /\ g.some THEN Ok(g.val, g.bs) ELSE Err(NotFound(pos, chr), s)

\* bytes(len); a get that panics ends the call (the Err of kind "panic")
Bytes(len, s) ==
    LET g == Get(s, len) IN
    IF g.panic THEN Err([kind |-> "panic", offset |-> 0, x |-> 0, y |-> 0], s)
    ELSE IF g.some THEN Ok(g.val, g.bs)
    ELSE Err(OverCapacity(g.bs.pos, BsLen(g.bs), len), g.bs)

\* constructors of the matchers
MUnit(v) == [k |-> "unit", a |-> v, b |-> 0]
MOne(c) == [k |-> "one", a |-> c, b |-> 0]
MSingle(c) == [k |-> "single", a |-> c, b |-> 0]
MExact(slice) == [k |-> "exact", a |-> slice, b |-> 0]
MString(str) == [k |-> "string", a |-> str, b |-> 0]
MUntil(okset) == [k |-> "until", a |-> okset, b |-> 0]
MBefore(c) == [k |-> "before", a |-> c, b |-> 0]
MBytes(n) == [k |-> "bytes", a |-> n, b |-> 0]
MThen(m, n) == [k |-> "then", a |-> m, b |-> n]
MMaybe(m) == [k |-> "maybe", a |-> m, b |-> 0]
MRepeat(m) == [k |-> "repeat", a |-> m, b |-> 0]
\* map with a closure that captures nothing, and with one that captures env
MMap(m, f) == [k |-> "map", a |-> m, b |-> [name |-> f, env |-> 0]]
MMapEnv(m, f, env) == [k |-> "map", a |-> m, b |-> [name |-> f, env |-> env]]
MSave(m, f) == [k |-> "save", a |-> m, b |-> f]
MSkip(m) == [k |-> "skip", a |-> m, b |-> 0]
MThenWith(m, f) == [k |-> "then_with", a |-> m, b |-> f]

----------------------------------------------------------------------------
(* src/src/http.rs: the values and closures of the HTTP grammar.  A String *)
(* is the sequence of its chars' code points.                              *)

\* as_string: each byte b becomes the char with code point b
AsString(bytes) == [i \in 1..Len(bytes) |-> bytes[i]]

\* Request::default()
DefaultRequest ==
    [method |-> <<>>, path |-> <<>>, protocol |-> <<>>, headers |-> <<>>,
     content |-> <<>>]

\* "Content-Length"
ContentLengthName == <<67, 111, 110, 116, 101, 110, 116, 45, 76, 101, 110, 103, 116, 104>>

\* a lookup that takes the last header of that name
GetHeaderValueLast(req, name) ==
    LET hit == {i \in 1..Len(req.headers) : req.headers[i].name = name} IN
    IF hit = {} THEN [some |-> FALSE, val |-> <<>>]
    ELSE [some |-> TRUE,
          val |-> req.headers[CHOOSE i \in hit : \A j \in hit : j <= i].value]

\* get_header_value: the value of the first header of that name
GetHeaderValue(req, name) ==
    LET hit == {i \in 1..Len(req.headers) : req.headers[i].name = name} IN
    IF hit = {} THEN [some |-> FALSE, val |-> <<>>]
    ELSE [some |-> TRUE,
          val |-> req.headers[CHOOSE i \in hit : \A j \in hit : i <= j].value]

\* usize::MAX of a 64-bit target, in decimal digits: 18446744073709551615
UsizeMaxDigits == <<49, 56, 52, 52, 54, 55, 52, 52, 48, 55, 51, 55, 48, 57, 53, 53, 49, 54, 49, 53>>

\* a requested length beyond every stream of the model: stands for the
\* values of 10 digits and more that are below 2^64 - 709551616, which
\* get() refuses all alike
Huge == 999999999

\* usize::MAX is 18446744073 * 10^9 + 709551615
UsizeMaxLow == 709551615

RECURSIVE StripZeros(_)
StripZeros(d) == IF d # <<>> /\ Head(d) = 48 THEN StripZeros(Tail(d)) ELSE d

RECURSIVE DigitsValue(_, _)
DigitsValue(d, acc) ==
    IF d = <<>> THEN acc ELSE DigitsValue(Tail(d), acc * 10 + (Head(d) - 48))

\* d > e for two digit strings of the same length
RECURSIVE DigitsGreater(_, _)
DigitsGreater(d, e) ==
    IF d = <<>> THEN FALSE
    ELSE IF Head(d) # Head(e) THEN Head(d) > Head(e)
    ELSE DigitsGreater(Tail(d), Tail(e))

\* str.parse::<usize>(): one optional '+', then one or more ASCII digits,
\* whose value must fit a usize; Err otherwise
ParseUsize(str) ==
    LET digits == IF str # <<>> /\ Head(str) = 43 THEN Tail(str) ELSE str
        sig == StripZeros(digits)
    IN  IF digits = <<>> \/ \E i \in 1..Len(digits) : digits[i] \notin 48..57
        THEN [some |-> FALSE, num |-> 0]
        ELSE IF Len(sig) > Len(UsizeMaxDigits)
                \/ (Len(sig) = Len(UsizeMaxDigits) /\ DigitsGreater(sig, UsizeMaxDigits))
        THEN [some |-> FALSE, num |-> 0]
        ELSE IF Len(sig) = Len(UsizeMaxDigits)
                /\ SubSeq(sig, 1, 11) = SubSeq(UsizeMaxDigits, 1, 11)
        THEN [some |-> TRUE, num |-> DigitsValue(SubSeq(sig, 12, 20), 0) - UsizeMaxLow - 1]
        ELSE IF Len(sig) > 9 THEN [some |-> TRUE, num |-> Huge]
        ELSE [some |-> TRUE, num |-> DigitsValue(sig, 0)]

\* get_content_length: Some(n), Some(0) for a value that does not parse,
\* None without the header
GetContentLength(req) ==
    LET v == GetHeaderValue(req, ContentLengthName)
        n == ParseUsize(v.val)
    IN  IF ~v.some THEN [some |-> FALSE, num |-> 0]
        ELSE [some |-> TRUE, num |-> IF n.some THEN n.num ELSE 0]

----------------------------------------------------------------------------
(* src/src/ws.rs: the values and closures of the WebSocket grammar.        *)

\* the two ways the crate is built: with overflow checks (debug) and
\* without (release)
Builds == {"debug", "release"}

\* FrameOpts::new with the opcode taken from the low 7 bits
FrameOptsNewWide(word) ==
    [fin |-> (word[1] \div 128) > 0,
     code |-> word[1] % 128,
     len |-> word[2] % 128,
     mask |-> (word[2] \div 128) > 0]

\* FrameOpts::new
FrameOptsNew(word) ==
    [fin |-> (word[1] \div 128) > 0,
     code |-> word[1] % 16,
     len |-> word[2] % 128,
     mask |-> (word[2] \div 128) > 0]

\* acc << k in an unsigned of w bits: with overflow checks a shift by w or
\* more panics (-1); without them the shift amount wraps
Shl(acc, k, w, build) ==
    LET wrapped(n) == IF acc = 0 THEN 0 ELSE (acc * (2 ^ n)) % (2 ^ w) IN
    IF k >= w THEN (IF build = "debug" THEN -1 ELSE wrapped(k % w))
    ELSE wrapped(k)

\* build_u16 (w = 16) and build_u64 (w = 64): fold of acc << 8 + b, which
\* Rust reads acc << (8 + b); -1 is a panic
RECURSIVE BuildUInt(_, _, _, _)
BuildUInt(vec, w, build, acc) ==
    IF vec = <<>> THEN acc
    ELSE LET r == Shl(acc, 8 + Head(vec), w, build) IN
         IF r < 0 THEN -1 ELSE BuildUInt(Tail(vec), w, build, r)

\* x as u32
AsU32(x) == IF x < 2 ^ 16 THEN x ELSE x % (2 ^ 16 * 2 ^ 16)

\* bitwise xor of two bytes
RECURSIVE BitXor(_, _)
BitXor(x, y) ==
    IF x = 0 THEN y
    ELSE IF y = 0 THEN x
    ELSE ((x + y) % 2) + 2 * BitXor(x \div 2, y \div 2)

\* decode_frame_body
DecodeFrameBody(body, mask) ==
    [i \in 1..Len(body) |-> BitXor(body[i], mask[((i - 1) % 4) + 1])]

----------------------------------------------------------------------------
\* the closures given to map: Return(v) or a panic
Return(v) == [panic |-> FALSE, val |-> v]
Panicked == [panic |-> TRUE, val |-> <<>>]

MapFn(f, v) ==
    CASE f.name = "push_string" -> Return(Append(v[1], AsString(v[2])))
      [] f.name = "fst" -> Return(v[1])
      [] f.name = "header" -> Return([name |-> v[1], value |-> v[2]])
      [] f.name = "frame_opts" -> Return(FrameOptsNew(v))
      [] f.name = "build_u64" ->
            LET r == BuildUInt(v[2], 64, f.env, 0) IN
            IF r < 0 THEN Panicked ELSE Return(AsU32(r))
      [] f.name = "build_u16" ->
            LET r == BuildUInt(v[2], 16, f.env, 0) IN
            IF r < 0 THEN Panicked ELSE Return(AsU32(r))
      [] f.name = "len" -> Return(AsU32(f.env))
      [] f.name = "frame" ->
            Return([fin |-> f.env.fin, opcode |-> f.env.code, len |-> v,
                    mask |-> Absent, body |-> <<>>])

\* the closures given to save: t is the builder, u the field parsed
SaveFn(f, t, u) ==
    CASE f = "method" -> [t EXCEPT !.method = AsString(u)]
      [] f = "path" -> [t EXCEPT !.path = AsString(u)]
      [] f = "protocol" -> [t EXCEPT !.protocol = AsString(u)]
      [] f = "headers" -> [t EXCEPT !.headers = u]
      [] f = "content" -> [t EXCEPT !.content = u]
      [] f = "mask" -> [t EXCEPT !.mask = Present(<<u[1], u[2], u[3], u[4]>>)]
      [] f = "body" -> [t EXCEPT !.body = u]

\* the closures given to then_with: the matcher to run next
NextFn(f, t) ==
    CASE f = "content" ->
            LET n == GetContentLength(t) IN MBytes(IF n.some THEN n.num ELSE 0)
      [] f = "frame_body" -> MBytes(t.len)

----------------------------------------------------------------------------
RECURSIVE DoMatch(_, _)
RECURSIVE RepeatLoop(_, _, _)

\* a then that rewinds to where it started when its right side fails
ChainAtomic(m, n, s) ==
    LET t == DoMatch(m, s) IN
    IF ~t.ok THEN t
    ELSE LET u == DoMatch(n, t.bs) IN
         IF ~u.ok THEN Err(u.err, Reset(u.bs, MarkOf(s)))
         ELSE Ok(<<t.val, u.val>>, u.bs)

\* Chain::do_match (then): left, then right from where left stopped
Chain(m, n, s) ==
    LET t == DoMatch(m, s) IN
    IF ~t.ok THEN t
    ELSE LET u == DoMatch(n, t.bs) IN
         IF ~u.ok THEN u ELSE Ok(<<t.val, u.val>>, u.bs)

\* Expose::do_match (then_with): the right matcher is made from left's value
Expose(context, next, s) ==
    LET t == DoMatch(context, s) IN
    IF ~t.ok THEN t
    ELSE LET u == DoMatch(NextFn(next, t.val), t.bs) IN
         IF ~u.ok THEN u ELSE Ok(<<t.val, u.val>>, u.bs)

\* Map::do_match.  A closure that panics ends the call: that is the Err of
\* kind "panic" (no closure that can panic is run under maybe or repeat)
Map(prev, mapper, s) ==
    LET t == DoMatch(prev, s) IN
    IF ~t.ok THEN t
    ELSE LET u == MapFn(mapper, t.val) IN
         IF u.panic THEN Err([NoErr EXCEPT !.kind = "panic"], t.bs)
         ELSE Ok(u.val, t.bs)

\* Save::do_match
Save(matcher, func, s) ==
    LET r == DoMatch(matcher, s) IN
    IF ~r.ok THEN r ELSE Ok(SaveFn(func, r.val[1], r.val[2]), r.bs)

\* Skip::do_match
Skip(matcher, s) ==
    LET r == DoMatch(matcher, s) IN
    IF ~r.ok THEN r ELSE Ok(r.val[1], r.bs)

\* maybe(this)
Maybe(this, s) ==
    LET mark == MarkOf(s)
        r == DoMatch(this, s)
    IN  IF r.ok THEN Ok(Present(r.val), r.bs) ELSE Ok(Absent, Reset(r.bs, mark))

\* repeat(this), the whole loop
RepeatLoop(this, acc, s) ==
    LET mark == MarkOf(s)
        r == DoMatch(this, s)
    IN  IF r.ok THEN RepeatLoop(this, Append(acc, r.val), r.bs)
        ELSE Ok(acc, Reset(r.bs, mark))

\* MatcherTrait::do_match
DoMatch(m, s) ==
    CASE m.k = "unit" -> Unit(m.a, s)
      [] m.k = "one" -> One(m.a, s)
      [] m.k = "single" -> Single(m.a, s)
      [] m.k = "exact" -> Exact(m.a, s)
      [] m.k = "string" -> String(m.a, s)
      [] m.k = "until" -> Until(m.a, s)
      [] m.k = "before" -> Before(m.a, s)
      [] m.k = "bytes" -> Bytes(m.a, s)
      [] m.k = "then" -> Chain(m.a, m.b, s)
      [] m.k = "maybe" -> Maybe(m.a, s)
      [] m.k = "repeat" -> RepeatLoop(m.a, <<>>, s)
      [] m.k = "then_with" -> Expose(m.a, m.b, s)
      [] m.k = "map" -> Map(m.a, m.b, s)
      [] m.k = "save" -> Save(m.a, m.b, s)
      [] m.k = "skip" -> Skip(m.a, s)

\* header_parser()
HeaderParser ==
    LET name == MMap(MThen(MUnit(<<>>), MBefore(58)), "push_string")
        colon == MMap(MThen(name, MSingle(58)), "fst")
        space == MMap(MThen(colon, MSingle(32)), "fst")
        value == MMap(MThen(space, MBefore(13)), "push_string")
        crlf == MMap(MThen(value, MExact(<<13, 10>>)), "fst")
    IN  MMap(crlf, "header")

\* request_parser() up to the blank line that ends the headers
RequestHeadParser ==
    LET method == MSave(MThen(MUnit(DefaultRequest), MBefore(32)), "method")
        sp1 == MSkip(MThen(method, MSingle(32)))
        path == MSave(MThen(sp1, MBefore(32)), "path")
        sp2 == MSkip(MThen(path, MSingle(32)))
        protocol == MSave(MThen(sp2, MBefore(13)), "protocol")
        crlf == MSkip(MThen(protocol, MExact(<<13, 10>>)))
        headers == MSave(MThen(crlf, MRepeat(HeaderParser)), "headers")
    IN  MSkip(MThen(headers, MExact(<<13, 10>>)))

\* request_parser()
RequestParser == MSave(MThenWith(RequestHeadParser, "content"), "content")

\* parse_http_request: the Err becomes None; a panic ends the call
ParseHttpRequest(s) ==
    LET r == DoMatch(RequestParser, s) IN
    [bs |-> r.bs, some |-> r.ok, req |-> IF r.ok THEN r.val ELSE DefaultRequest,
     panic |-> ~r.ok /\ r.err.kind = "panic"]

\* Frame { fin, opcode, len, mask, body }
NoFrame == [fin |-> FALSE, opcode |-> 0, len |-> 0, mask |-> Absent, body |-> <<>>]

\* Frame::text
FrameText(body) ==
    [fin |-> TRUE, opcode |-> 1, len |-> Len(body), mask |-> Absent, body |-> body]

\* frame_opts()
FrameOptsParser == MMap(MBytes(2), "frame_opts")

\* the matcher p4 that parse_frame builds from the options it has read
FrameParser(opts, build) ==
    LET p0 == MUnit(<<>>)
        p1 == CASE opts.len = 127 -> MMapEnv(MThen(p0, MBytes(8)), "build_u64", build)
                [] opts.len = 126 -> MMapEnv(MThen(p0, MBytes(2)), "build_u16", build)
                [] OTHER -> MMapEnv(p0, "len", opts.len)
        p2 == MMapEnv(p1, "frame", [fin |-> opts.fin, code |-> opts.code])
        p3 == IF opts.mask THEN MSave(MThen(p2, MBytes(4)), "mask") ELSE p2
    IN  MSave(MThenWith(p3, "frame_body"), "body")

\* parse_frame: every Err becomes None; a panic ends the call
ParseFrame(s, build) ==
    LET fo == DoMatch(FrameOptsParser, s) IN
    IF ~fo.ok THEN [bs |-> fo.bs, some |-> FALSE, frame |-> NoFrame, panic |-> FALSE]
    ELSE LET r == DoMatch(FrameParser(fo.val, build), fo.bs) IN
         [bs |-> r.bs, some |-> r.ok,
          frame |-> IF r.ok THEN r.val ELSE NoFrame,
          panic |-> ~r.ok /\ r.err.kind = "panic"]

\* a + b in a u8: with overflow checks an overflow panics (-1)
AddU8(a, b, build) ==
    IF a + b > 255 THEN (IF build = "debug" THEN -1 ELSE (a + b) % 256) ELSE a + b

\* Into<Vec<u8>> for Frame, with a first byte that leaves fin out
FrameIntoBytesNoFin(frame, build) ==
    LET s0 == WithCapacity(Len(frame.body) + 26)
        s1 == Put(s0, <<frame.opcode>>).bs
        size == Len(frame.body) % 65536
        s2 == IF Len(frame.body) <= 125
              THEN Put(s1, <<Len(frame.body) % 256>>).bs
              ELSE Put(Put(s1, <<126>>).bs, <<size \div 256, size % 256>>).bs
        s3 == Put(s2, frame.body).bs
    IN  [panic |-> FALSE, bytes |-> Slice(s3.buf, s3.pos, Len(s3.buf))]

\* Into<Vec<u8>> for Frame: the bytes, or a panic
FrameIntoBytes(frame, build) ==
    LET s0 == WithCapacity(Len(frame.body) + 26)
        byte1 == AddU8((IF frame.fin THEN 1 ELSE 0) * 128, frame.opcode, build)
        s1 == Put(s0, <<byte1>>).bs
        size == Len(frame.body) % 65536
        s2 == IF Len(frame.body) <= 125
              THEN Put(s1, <<Len(frame.body) % 256>>).bs
              ELSE Put(Put(s1, <<126>>).bs, <<size \div 256, size % 256>>).bs
        s3 == Put(s2, frame.body).bs
    IN  IF byte1 < 0 THEN [panic |-> TRUE, bytes |-> <<>>]
        ELSE [panic |-> FALSE, bytes |-> Slice(s3.buf, s3.pos, Len(s3.buf))]

----------------------------------------------------------------------------
(* SpecBuf: a caller driving one ByteStream through its methods.           *)

\* byte values the caller writes
BufBytes == {0, 127}

\* widths of the typed reads get_u8, get_u16, get_u32, get_u64, get_16, get_32
UIntWidths == {1, 2, 4, 8}
ArrWidths == {16, 32}

Idle == [step |-> "none", pc |-> "idle", acc |-> <<>>, hist |-> <<>>, pos0 |-> 0]

InitBuf ==
    /\ \/ \E b \in SeqsUpTo(BufBytes, MaxPut), c \in 0..MaxCap :
            /\ Len(b) <= c
            /\ bs = Wrap(b, c)
            /\ op = "wrap"
       \/ \E c \in 0..MaxCap :
            /\ bs = WithCapacity(c)
            /\ op = "with_capacity"
    /\ marks = {}
    /\ ret = None
    /\ call = Idle
    /\ inp = <<>>
    /\ out = <<>>

BufPut ==
    /\ op # "panic"
    /\ \E data \in SeqsUpTo(BufBytes, MaxPut) :
        LET p == Put(bs, data) IN
        /\ bs' = p.bs
        /\ op' = "put"
        /\ ret' = Some(data, p.n)
        /\ UNCHANGED <<marks, call, inp, out>>

\* get(n); a panic ends the run
BufGet ==
    /\ op # "panic"
    /\ \E n \in (0..(MaxCap + 1)) \cup UsizeTop :
        \E g \in {Get(bs, n)} :
            /\ bs' = g.bs
            /\ op' = IF g.panic THEN "panic" ELSE "get"
            /\ ret' = [some |-> g.some, val |-> g.val, num |-> n]
            /\ UNCHANGED <<marks, call, inp, out>>

BufGetUInt ==
    /\ op # "panic"
    /\ \E w \in UIntWidths :
        LET g == GetUInt(bs, w) IN
        /\ bs' = g.bs
        /\ op' = "get_u"
        /\ ret' = [some |-> g.some, val |-> g.val, num |-> g.num]
        /\ UNCHANGED <<marks, call, inp, out>>

BufGetArr ==
    /\ op # "panic"
    /\ \E w \in ArrWidths :
        LET g == GetArr(bs, w) IN
        /\ bs' = g.bs
        /\ op' = "get_arr"
        /\ ret' = [some |-> g.some, val |-> g.val, num |-> w]
        /\ UNCHANGED <<marks, call, inp, out>>

BufNext ==
    /\ op # "panic"
    /\ \E g \in {Next_(bs)} :
        /\ bs' = g.bs
        /\ op' = "next"
        /\ ret' = [some |-> g.some, val |-> g.val, num |-> g.num]
        /\ UNCHANGED <<marks, call, inp, out>>

BufMark ==
    /\ op # "panic"
    /\ Cardinality(marks \cup {MarkOf(bs)}) <= MaxMarks
    /\ marks' = marks \cup {MarkOf(bs)}
    /\ op' = "mark"
    /\ ret' = Some(<<>>, MarkOf(bs))
    /\ UNCHANGED <<bs, call, inp, out>>

\* reset takes the Mark by value: the caller no longer holds it
BufReset ==
    /\ op # "panic"
    /\ \E m \in marks :
        /\ bs' = Reset(bs, m)
        /\ marks' = marks \ {m}
        /\ op' = "reset"
        /\ ret' = Some(<<>>, m)
        /\ UNCHANGED <<call, inp, out>>

BufPull ==
    /\ op # "panic"
    /\ bs' = Pull(bs)
    /\ op' = "pull"
    /\ ret' = None
    /\ UNCHANGED <<marks, call, inp, out>>

BufClear ==
    /\ op # "panic"
    /\ bs' = Clear(bs)
    /\ op' = "clear"
    /\ ret' = None
    /\ UNCHANGED <<marks, call, inp, out>>

NextBuf ==
    \/ BufPut
    \/ BufGet
    \/ BufGetUInt
    \/ BufGetArr
    \/ BufNext
    \/ BufMark
    \/ BufReset
    \/ BufPull
    \/ BufClear

SpecBuf == InitBuf /\ [][NextBuf]_vars

----------------------------------------------------------------------------
(* SpecComb: a caller applying matchers of the core, one after another, to *)
(* one stream.  A matcher other than repeat is applied in one step; the    *)
(* loop of repeat is taken one iteration at a time.                        *)

\* the bytes of the streams: 'a', 'b', ':'
CombBytes == {97, 98, 58}

\* the matchers applied, and the sub-steps given to repeat
Steps ==
    << MSingle(97),
       MExact(<<97, 98>>),
       MExact(<<97, 58>>),
       MString(<<97, 98>>),
       MString(<<98, 97, 98>>),
       MMaybe(MSingle(97)),
       MMaybe(MThen(MSingle(97), MSingle(98))),
       MMaybe(MExact(<<97, 98>>)),
       MMaybe(MBytes(2)),
       MMaybe(MBefore(58)),
       MMaybe(MThen(MBytes(1), MBefore(58))),
       MThen(MSingle(97), MSingle(98)),
       MBytes(2),
       MBefore(58),
       MUntil({97}),
       MUnit(0),
       MThen(MBytes(2), MExact(<<97, 98>>)),
       MThen(MBefore(58), MSingle(97)) >>

RepeatSubs ==
    << MSingle(97),
       MThen(MSingle(97), MSingle(98)),
       MExact(<<97, 98>>),
       MBytes(2),
       MThen(MBefore(58), MSingle(58)),
       MThen(MBytes(1), MBefore(58)),
       MMaybe(MSingle(97)),
       MUnit(0) >>

InitComb ==
    /\ \E b \in SeqsUpTo(CombBytes, MaxBuf) : bs = Wrap(b, Len(b))
    /\ marks = {}
    /\ op = "wrap"
    /\ ret = Ok(<<>>, <<>>)
    /\ call = Idle
    /\ inp = <<>>
    /\ out = <<>>

\* bs.apply(Steps[i])
Apply ==
    \E i \in 1..Len(Steps) :
        /\ call.pc \in {"idle", "done"}
        /\ \E r \in {DoMatch(Steps[i], bs)} :
            /\ bs' = r.bs
            /\ op' = Steps[i].k
            /\ ret' = [r EXCEPT !.bs = <<>>]
            /\ call' = [step |-> i, pc |-> "done", acc |-> <<>>, hist |-> <<>>,
                        pos0 |-> bs.pos]
            /\ UNCHANGED <<marks, inp, out>>

\* bs.apply(repeat(RepeatSubs[i])): entering the closure
RepeatBegin ==
    \E i \in 1..Len(RepeatSubs) :
        /\ call.pc \in {"idle", "done"}
        /\ op' = "repeat"
        /\ ret' = Ok(<<>>, <<>>)
        /\ call' = [step |-> i, pc |-> "loop", acc |-> <<>>, hist |-> <<>>,
                    pos0 |-> bs.pos]
        /\ UNCHANGED <<bs, marks, inp, out>>

\* one iteration of the loop of repeat: hist records the mark it took
RepeatIter ==
    /\ call.pc = "loop"
    /\ Len(call.acc) < MaxIter
    /\ \E mark \in {MarkOf(bs)}, r \in {DoMatch(RepeatSubs[call.step], bs)} :
        /\ bs' = IF r.ok THEN r.bs ELSE Reset(r.bs, mark)
        /\ call' = IF r.ok
                   THEN [call EXCEPT !.acc = Append(call.acc, r.val),
                                     !.hist = Append(call.hist, mark)]
                   ELSE [call EXCEPT !.pc = "done",
                                     !.hist = Append(call.hist, mark)]
        /\ ret' = IF r.ok THEN ret ELSE [Ok(call.acc, <<>>) EXCEPT !.bs = <<>>]
        /\ UNCHANGED <<op, marks, inp, out>>

NextComb ==
    \/ Apply
    \/ RepeatBegin
    \/ RepeatIter

SpecComb == InitComb /\ [][NextComb]_vars

----------------------------------------------------------------------------
(* SpecLoop: the loop of repeat(this) as it runs inside one call.  The Vec *)
(* acc is only pushed to until the loop returns: it is kept as the number  *)
(* of values pushed, counted up to MaxIter ("MaxIter or more"), and the    *)
(* parity of the number of iterations made.  The loop has no exit but the  *)
(* Err of the sub-step, and so has none here.                              *)

\* the sub-steps: some read a byte or more whenever they succeed, the
\* others can succeed without reading any
LoopSubs ==
    << MSingle(97),
       MExact(<<97, 98>>),
       MThen(MBefore(58), MSingle(58)),
       MUnit(0),
       MMaybe(MSingle(97)),
       MUntil({97}),
       MBytes(0),
       MRepeat(MSingle(97)) >>

InitLoop ==
    /\ \E b \in SeqsUpTo(CombBytes, MaxBuf) : bs = Wrap(b, Len(b))
    /\ marks = {}
    /\ op = "wrap"
    /\ ret = None
    /\ call = [step |-> 0, pc |-> "idle", pushed |-> 0, odd |-> FALSE, pos0 |-> 0]
    /\ inp = <<>>
    /\ out = <<>>

\* bs.apply(repeat(LoopSubs[i])): entering the closure
LoopBegin ==
    \E i \in 1..Len(LoopSubs) :
        /\ call.pc \in {"idle", "done"}
        /\ op' = "repeat"
        /\ call' = [step |-> i, pc |-> "loop", pushed |-> 0, odd |-> FALSE,
                    pos0 |-> bs.pos]
        /\ UNCHANGED <<bs, marks, ret, inp, out>>

\* acc.push(x) at the end of an iteration
Pushed(c) ==
    [c EXCEPT !.pushed = Min(c.pushed + 1, MaxIter), !.odd = ~c.odd]

\* one iteration: mark, do_match, then push and go round, or reset and
\* return Ok(acc)
LoopIter ==
    /\ call.pc = "loop"
    /\ \E mark \in {MarkOf(bs)}, r \in {DoMatch(LoopSubs[call.step], bs)} :
        /\ bs' = IF r.ok THEN r.bs ELSE Reset(r.bs, mark)
        /\ call' = IF r.ok THEN Pushed(call) ELSE [call EXCEPT !.pc = "done"]
        /\ UNCHANGED <<op, marks, ret, inp, out>>

NextLoop ==
    \/ LoopBegin
    \/ LoopIter

\* what an iteration does to the call: one more value pushed, or the return
LoopRuns ==
    /\ call.pc = "loop"
    /\ call' \in {Pushed(call), [call EXCEPT !.pc = "done"]}

\* nothing suspends the loop: an iteration that can be made is made
SpecLoop == InitLoop /\ [][NextLoop]_vars /\ WF_call(LoopRuns)

----------------------------------------------------------------------------
(* SpecHttp: a stream wrapped around the bytes of a request, made of a     *)
(* start line, header lines, the blank line and whatever follows it, and   *)
(* parse_http_request called on it again and again.                        *)

CRLF == <<13, 10>>

\* the start lines: "G / H\r\n", and "G/H\r\n" which has no space
StartLines == << <<71, 32, 47, 32, 72, 13, 10>>, <<71, 47, 72, 13, 10>> >>
WellFormedStart == {1}

\* the header lines name ": " value "\r\n"; len is the unsigned integer
\* that value is the decimal numeral of, -1 if it is none
HeaderLines ==
    <<
       \* "k: v"
       [name |-> <<107>>,
        value |-> <<118>>,
        len |-> -1],
       \* "Content-Length: 1"
       [name |-> <<67, 111, 110, 116, 101, 110, 116, 45, 76, 101, 110, 103, 116, 104>>,
        value |-> <<49>>,
        len |-> 1],
       \* "Content-Length: 6"
       [name |-> <<67, 111, 110, 116, 101, 110, 116, 45, 76, 101, 110, 103, 116, 104>>,
        value |-> <<54>>,
        len |-> 6],
       \* "Content-Length: +1"
       [name |-> <<67, 111, 110, 116, 101, 110, 116, 45, 76, 101, 110, 103, 116, 104>>,
        value |-> <<43, 49>>,
        len |-> 1],
       \* "Content-Length: x"
       [name |-> <<67, 111, 110, 116, 101, 110, 116, 45, 76, 101, 110, 103, 116, 104>>,
        value |-> <<120>>,
        len |-> -1],
       \* "Content-Length: 99999999999999999999"
       [name |-> <<67, 111, 110, 116, 101, 110, 116, 45, 76, 101, 110, 103, 116, 104>>,
        value |-> <<57, 57, 57, 57, 57, 57, 57, 57, 57, 57, 57, 57, 57, 57, 57, 57, 57, 57, 57, 57>>,
        len |-> -1],
       \* "Content-Length: 18446744073709551615" (usize::MAX, written Huge)
       [name |-> <<67, 111, 110, 116, 101, 110, 116, 45, 76, 101, 110, 103, 116, 104>>,
        value |-> <<49, 56, 52, 52, 54, 55, 52, 52, 48, 55, 51, 55, 48, 57, 53, 53, 49, 54, 49, 53>>,
        len |-> Huge] >>

\* the header blocks: sequences of header lines
HeaderBlocks ==
    << <<>>, <<1>>, <<2>>, <<3>>, <<4>>, <<5>>, <<6>>, <<7>>,
       <<1, 2>>, <<2, 3>>, <<3, 2>>, <<5, 2>>, <<1, 1>> >>

\* the pieces of what follows the blank line
Chunks ==
    <<
       \* "x"
       <<120>>,
       \* "\r\n"
       <<13, 10>>,
       \* "k: v\r\n"
       <<107, 58, 32, 118, 13, 10>>,
       \* "Content-Length: 1\r\n\r\n"
       <<67, 111, 110, 116, 101, 110, 116, 45, 76, 101, 110, 103, 116, 104, 58, 32, 49, 13, 10, 13, 10>>,
       \* "G / H\r\n"
       <<71, 32, 47, 32, 72, 13, 10>> >>

RECURSIVE Concat(_)
Concat(ss) == IF ss = <<>> THEN <<>> ELSE Head(ss) \o Concat(Tail(ss))

LineBytes(i) == HeaderLines[i].name \o <<58, 32>> \o HeaderLines[i].value \o CRLF
BlockBytes(j) == Concat([i \in 1..Len(HeaderBlocks[j]) |-> LineBytes(HeaderBlocks[j][i])])
TailBytes(tl) == Concat([i \in 1..Len(tl) |-> Chunks[tl[i]]])

\* the bytes of the input in: start line, header block, blank line, tail
HttpBytes(in) ==
    StartLines[in.start] \o BlockBytes(in.block) \o CRLF \o TailBytes(in.tail)

InitHttp ==
    /\ \E i \in 1..Len(StartLines), j \in 1..Len(HeaderBlocks),
          tl \in SeqsUpTo(1..Len(Chunks), MaxTail) :
            /\ inp = [start |-> i, block |-> j, tail |-> tl]
            /\ bs = Wrap(HttpBytes(inp), Len(HttpBytes(inp)))
    /\ marks = {}
    /\ op = "wrap"
    /\ ret = None
    /\ call = Idle
    /\ out = <<>>

\* parse_http_request(&mut bs); pos0 and pos1 are the positions around it;
\* after a panic there is no further call
HttpParse ==
    /\ op # "panic"
    /\ Len(out) < MaxCalls
    /\ \E r \in {ParseHttpRequest(bs)} :
        /\ bs' = r.bs
        /\ op' = IF r.panic THEN "panic" ELSE "parse_http_request"
        /\ out' = Append(out, [some |-> r.some, req |-> r.req, panic |-> r.panic,
                               pos0 |-> bs.pos, pos1 |-> r.bs.pos])
        /\ UNCHANGED <<marks, ret, call, inp>>

NextHttp == HttpParse

SpecHttp == InitHttp /\ [][NextHttp]_vars

\* what the input was written to mean: its headers, the index just past
\* its blank line, and the length its first Content-Length header declares
ExpHeaders(in) ==
    [i \in 1..Len(HeaderBlocks[in.block]) |->
        [name |-> HeaderLines[HeaderBlocks[in.block][i]].name,
         value |-> HeaderLines[HeaderBlocks[in.block][i]].value]]
HeadEnd(in) == Len(StartLines[in.start]) + Len(BlockBytes(in.block)) + 2
ExpLength(in) ==
    LET b == HeaderBlocks[in.block]
        cl == {i \in 1..Len(b) : HeaderLines[b[i]].name = ContentLengthName}
        first == CHOOSE i \in cl : \A j \in cl : i <= j
    IN  IF cl = {} \/ HeaderLines[b[first]].len < 0 THEN 0
        ELSE HeaderLines[b[first]].len

\* the length a list of parsed headers declares: the number that the value
\* of the first one named Content-Length is the numeral of, 0 without one
DeclaredLength(headers) ==
    LET cl == {i \in 1..Len(headers) : headers[i].name = ContentLengthName}
        first == CHOOSE i \in cl : \A j \in cl : i <= j
        known == {h \in 1..Len(HeaderLines) :
                    HeaderLines[h].value = headers[first].value}
        len == HeaderLines[CHOOSE h \in known : TRUE].len
    IN  IF cl = {} \/ len < 0 THEN 0 ELSE len

(* C3: whenever the start line, the headers and the blank line parse, with *)
(* n the number the first parsed header named Content-Length carries (0    *)
(* without one, or when its value is no unsigned integer):                 *)
(* parse_http_request returns a Request exactly when n bytes follow the    *)
(* blank line, and its content is those n bytes.  In particular a missing  *)
(* or unparseable Content-Length never makes the parse fail.               *)
C3_BodyLength ==
    \A c \in 1..Len(out) :
        \A h \in {DoMatch(RequestHeadParser, [bs EXCEPT !.pos = out[c].pos0])} :
        \A n \in {IF h.ok THEN DeclaredLength(h.val.headers) ELSE 0} :
            IF ~h.ok THEN ~out[c].some
            ELSE /\ out[c].some <=> (h.bs.pos + n <= Len(bs.buf))
                 /\ out[c].some =>
                     /\ Len(out[c].req.content) = n
                     /\ out[c].req.content = Slice(bs.buf, h.bs.pos, h.bs.pos + n)
                     /\ out[c].req.headers = h.val.headers

\* a Request came back with an empty content although bytes followed the
\* blank line: its first Content-Length is no numeral, its second one is
C3_Witness ==
    /\ Len(out) >= 1
    /\ out[1].some
    /\ Len(out[1].req.headers) = 2
    /\ out[1].req.headers[1] = [name |-> ContentLengthName, value |-> <<120>>]
    /\ out[1].req.headers[2] = [name |-> ContentLengthName, value |-> <<49>>]
    /\ out[1].req.content = <<>>
    /\ out[1].pos1 < Len(bs.buf)

\* the input is a well-formed request and nothing else: its body is as long
\* as its first Content-Length header says
WellFormedRequest(in) ==
    /\ in.start \in WellFormedStart
    /\ Len(TailBytes(in.tail)) = ExpLength(in)

\* the input is two well-formed requests back to back, the first without
\* a body: the tail is "G / H\r\n", header lines "k: v\r\n", "\r\n"
TwoRequests(in) ==
    /\ in.start \in WellFormedStart
    /\ ExpLength(in) = 0
    /\ in.tail \in {<<5, 2>>, <<5, 3, 2>>}

(* C4: for a well-formed request the headers returned are exactly the      *)
(* header lines before the first blank line, in order, each with the name  *)
(* before ':' and the value between ": " and CRLF, whatever bytes the body *)
(* holds.                                                                  *)
C4_HeadersEndAtBlankLine ==
    (Len(out) >= 1 /\ WellFormedRequest(inp)) =>
        /\ out[1].some
        /\ out[1].req.headers = ExpHeaders(inp)

(* C5: when the header block holds no Content-Length header, the Request   *)
(* that parse_http_request returns has an empty content, whatever bytes    *)
(* follow the blank line.                                                  *)
C5_NoLengthNoContent ==
    (/\ Len(out) >= 1
     /\ inp.start \in WellFormedStart
     /\ \A i \in 1..Len(ExpHeaders(inp)) : ExpHeaders(inp)[i].name # ContentLengthName
     /\ out[1].some)
        => out[1].req.content = <<>>

(* C6: a successful parse_http_request leaves the position just past the   *)
(* body of the request it returned (start line, headers, blank line and    *)
(* Content-Length bytes); on two well-formed requests back to back, two    *)
(* calls return the first and then the second.                             *)
C6_ConsumesOneRequest ==
    /\ (Len(out) >= 1 /\ inp.start \in WellFormedStart /\ out[1].some) =>
            out[1].pos1 = HeadEnd(inp) + ExpLength(inp)
    /\ (Len(out) >= 2 /\ TwoRequests(inp)) =>
            /\ out[1].some /\ out[2].some
            /\ out[1].req.headers = ExpHeaders(inp)
            /\ out[2].pos0 = HeadEnd(inp)
            /\ out[2].pos1 = Len(bs.buf)

----------------------------------------------------------------------------
(* SpecWs: parse_frame called on a stream wrapped around raw bytes, or     *)
(* around the bytes a Frame was encoded to.  The crate is built once, in   *)
(* debug or in release, for the whole run.                                 *)

\* first bytes: no flag, opcode 15, fin with opcode 1, fin with the
\* reserved bits and opcode 2
WsFirstBytes == {0, 15, 129, 242}

\* length classes: the small ones, the largest literal one and the two
\* that announce an extended length
WsClasses == (0..MaxClass) \cup {125, 126, 127}

\* what follows the first two bytes: a head, then a run of n bytes
WsHeads ==
    << <<>>,
       <<0, 255>>,
       <<0, 3>>,
       <<1, 0>>,
       <<0, 0, 0, 0, 0, 0, 0, 2>>,
       <<0, 0, 0, 0, 0, 0, 1, 0>>,
       <<1, 2, 3, 4>>,
       <<10, 20, 30>> >>
Run(n) == [i \in 1..n |-> (i * 7) % 256]
WsRuns == (0..MaxRun) \cup {125, 255}

\* the Frames encoded: opcodes within and beyond 4 bits, a len field that
\* is or is not the length of the body
WsOpcodes == {0, 1, 15, 16, 200}
WsBodies == (0..MaxBody) \cup {125, 126}
WsFrames ==
    {[fin |-> fin, opcode |-> oc, len |-> Len(body) + d, mask |-> mk, body |-> body] :
        fin \in BOOLEAN, oc \in WsOpcodes, d \in {0, 1},
        mk \in {Absent, Present(<<1, 2, 3, 4>>)},
        body \in {Run(n) : n \in WsBodies}}

InitWs ==
    /\ \/ \E b0 \in WsFirstBytes, mk \in {0, 128}, class \in WsClasses,
             h \in 1..Len(WsHeads), n \in WsRuns, build \in Builds :
               /\ inp = [kind |-> "bytes", build |-> build, frame |-> NoFrame,
                         bytes |-> <<b0, mk + class>> \o WsHeads[h] \o Run(n)]
               /\ bs = Wrap(inp.bytes, Len(inp.bytes))
               /\ op = "wrap"
       \/ \E f \in WsFrames, build \in Builds :
               /\ inp = [kind |-> "frame", build |-> build, frame |-> f,
                         bytes |-> <<>>]
               /\ bs = Wrap(<<>>, 0)
               /\ op = "frame"
    /\ marks = {}
    /\ ret = None
    /\ call = Idle
    /\ out = <<>>

\* let bytes: Vec<u8> = frame.into(); ByteStream::wrap(bytes)
WsInto ==
    /\ op = "frame"
    /\ \E e \in {FrameIntoBytes(inp.frame, inp.build)} :
        /\ bs' = IF e.panic THEN bs ELSE Wrap(e.bytes, Len(e.bytes))
        /\ op' = IF e.panic THEN "panic" ELSE "into"
        /\ UNCHANGED <<marks, ret, call, inp, out>>

\* parse_frame(&mut bs); after a panic there is no further call
WsParse ==
    /\ op \in {"wrap", "into", "parse_frame"}
    /\ Len(out) < MaxCalls
    /\ \E r \in {ParseFrame(bs, inp.build)} :
        /\ bs' = r.bs
        /\ op' = IF r.panic THEN "panic" ELSE "parse_frame"
        /\ out' = Append(out, [some |-> r.some, frame |-> r.frame, panic |-> r.panic,
                               pos0 |-> bs.pos, pos1 |-> r.bs.pos])
        /\ UNCHANGED <<marks, ret, call, inp>>

NextWs ==
    \/ WsInto
    \/ WsParse

SpecWs == InitWs /\ [][NextWs]_vars

\* the big-endian number a sequence of bytes is
RECURSIVE BigEndian(_, _)
BigEndian(v, acc) == IF v = <<>> THEN acc ELSE BigEndian(Tail(v), acc * 256 + Head(v))

\* the frame that starts at index p of the stream: its two first bytes, its
\* length class and mask flag
ClassAt(p) == bs.buf[p + 2] % 128
MaskedAt(p) == bs.buf[p + 2] >= 128

(* C7: the len of the Frame that parse_frame returns is the length class   *)
(* when that is at most 125, the 16-bit big-endian number in the next 2    *)
(* bytes when it is 126 (0x00, 0xFF: 255), the 64-bit big-endian number in *)
(* the next 8 bytes when it is 127.  (Stated for the 64-bit numbers below  *)
(* 2^24.)                                                                  *)
C7_LengthDecoded ==
    \A c \in 1..Len(out) :
        LET p == out[c].pos0
            w == IF Len(bs.buf) < p + 2 \/ ClassAt(p) <= 125 THEN 0
                 ELSE IF ClassAt(p) = 126 THEN 2 ELSE 8
            ext == Slice(bs.buf, p + 2, p + 2 + w)
        IN  (/\ inp.kind = "bytes"
             /\ Len(bs.buf) >= p + 2 + w
             /\ \A i \in 1..(w - 3) : ext[i] = 0)
            => /\ ~out[c].panic
               /\ out[c].some =>
                    out[c].frame.len = IF w = 0 THEN ClassAt(p) ELSE BigEndian(ext, 0)

(* C8: for a frame whose length class is at most 125 and whose bytes are   *)
(* all in the stream, parse_frame returns fin = bit 7 of byte 0, opcode =  *)
(* the low 4 bits of byte 0, mask = the next 4 bytes if bit 7 of byte 1 is *)
(* set and none otherwise, body = the `class` bytes that follow, as they   *)
(* are; and the position advances by 2 + (4 if masked) + class.            *)
C8_ShortFrame ==
    \A c \in 1..Len(out) :
        LET p == out[c].pos0
            m == IF MaskedAt(p) THEN 4 ELSE 0
            f == out[c].frame
        IN  (/\ Len(bs.buf) >= p + 2
             /\ ClassAt(p) <= 125
             /\ Len(bs.buf) >= p + 2 + m + ClassAt(p))
            => /\ out[c].some
               /\ ~out[c].panic
               /\ f.fin = (bs.buf[p + 1] >= 128)
               /\ f.opcode = bs.buf[p + 1] % 16
               /\ f.len = ClassAt(p)
               /\ f.mask = IF MaskedAt(p) THEN Present(Slice(bs.buf, p + 2, p + 6))
                           ELSE Absent
               /\ f.body = Slice(bs.buf, p + 2 + m, p + 2 + m + ClassAt(p))
               /\ out[c].pos1 = p + 2 + m + ClassAt(p)

\* a masked frame with fin and reserved bits set was parsed past the head
\* of the stream, and its body is not what unmasking would make of it
C8_Witness ==
    /\ Len(out) = 2
    /\ out[2].some
    /\ out[2].pos0 > 0
    /\ out[2].frame.fin
    /\ out[2].frame.mask # Absent
    /\ Len(out[2].frame.body) >= 2
    /\ DecodeFrameBody(out[2].frame.body, out[2].frame.mask[1]) # out[2].frame.body

\* the Frame read back from the bytes of inp.frame is that Frame in fin,
\* opcode, len and body
ReadBack ==
    /\ out[1].some
    /\ out[1].frame.fin = inp.frame.fin
    /\ out[1].frame.opcode = inp.frame.opcode
    /\ out[1].frame.len = inp.frame.len
    /\ out[1].frame.body = inp.frame.body

(* C9 as stated: every Frame with mask = none and a body of at most 125    *)
(* bytes is encoded, and read back by parse_frame with the same fin,       *)
(* opcode, len and body.                                                   *)
C9_RoundTripEveryFrame ==
    /\ (inp.kind = "frame" /\ inp.frame.mask = Absent /\ Len(inp.frame.body) <= 125)
            => op # "panic"
    /\ (inp.kind = "frame" /\ inp.frame.mask = Absent /\ Len(inp.frame.body) <= 125
        /\ Len(out) >= 1)
            => ReadBack

(* C9 amended: every Frame with mask = none, a body of at most 125 bytes,  *)
(* an opcode of at most 15 and len = the length of its body is encoded,    *)
(* and read back by parse_frame with the same fin, opcode, len and body.   *)
C9_RoundTrip ==
    /\ (inp.kind = "frame" /\ inp.frame.mask = Absent /\ Len(inp.frame.body) <= 125
        /\ inp.frame.opcode <= 15 /\ inp.frame.len = Len(inp.frame.body))
            => op # "panic"
    /\ (inp.kind = "frame" /\ inp.frame.mask = Absent /\ Len(inp.frame.body) <= 125
        /\ inp.frame.opcode <= 15 /\ inp.frame.len = Len(inp.frame.body)
        /\ Len(out) >= 1)
            => ReadBack

\* a Frame with fin, opcode 15 and a body of 125 bytes was encoded and
\* read back
C9_Witness ==
    /\ inp.kind = "frame"
    /\ inp.frame.mask = Absent
    /\ inp.frame.fin
    /\ inp.frame.opcode = 15
    /\ inp.frame.len = 125
    /\ Len(inp.frame.body) = 125
    /\ Len(out) >= 1
    /\ ReadBack

----------------------------------------------------------------------------
(* SpecIngest: a stream that is fed with put, read with get and compacted  *)
(* with pull.  out is the log of the calls: what was passed, what came     *)
(* back, the stream before and after.                                      *)

InitIngest ==
    /\ \/ \E k \in 0..MaxCap : bs = Wrap(Run(k), k)
       \/ \E c \in 0..MaxCap : bs = WithCapacity(c)
    /\ marks = {}
    /\ op = "new"
    /\ ret = None
    /\ call = Idle
    /\ inp = <<>>
    /\ out = <<>>

IngestPut ==
    /\ Len(out) < MaxOps
    /\ \E k \in 1..MaxPut : \E p \in {Put(bs, Run(k))} :
        /\ bs' = p.bs
        /\ op' = "put"
        /\ out' = Append(out, [op |-> "put", arg |-> Run(k), n |-> p.n,
                               before |-> bs, after |-> p.bs])
        /\ UNCHANGED <<marks, ret, call, inp>>

IngestGet ==
    /\ Len(out) < MaxOps
    /\ \E n \in 1..MaxPut : \E g \in {Get(bs, n)} :
        /\ bs' = g.bs
        /\ op' = "get"
        /\ out' = Append(out, [op |-> "get", arg |-> g.val, n |-> n,
                               before |-> bs, after |-> g.bs])
        /\ UNCHANGED <<marks, ret, call, inp>>

IngestPull ==
    /\ Len(out) < MaxOps
    /\ bs' = Pull(bs)
    /\ op' = "pull"
    /\ out' = Append(out, [op |-> "pull", arg |-> <<>>, n |-> 0,
                           before |-> bs, after |-> Pull(bs)])
    /\ UNCHANGED <<marks, ret, call, inp>>

NextIngest ==
    \/ IngestPut
    \/ IngestGet
    \/ IngestPull

SpecIngest == InitIngest /\ [][NextIngest]_vars

(* C15: pull compacts the buffer.  After it pos = 0, the unread bytes      *)
(* (those at or after the old pos) are the same sequence, the capacity is  *)
(* the same, and so cap(), the room for put, has grown by the number of    *)
(* bytes dropped.  A put refused for lack of room before pull can succeed  *)
(* after it.                                                               *)
C15_PullCompacts ==
    \A i \in 1..Len(out) :
        (out[i].op = "pull") =>
            /\ out[i].after.pos = 0
            /\ out[i].after.buf =
                    Slice(out[i].before.buf, out[i].before.pos, Len(out[i].before.buf))
            /\ out[i].after.capacity = out[i].before.capacity
            /\ Cap(out[i].after) = Cap(out[i].before) + out[i].before.pos
            /\ \A k \in 1..MaxPut :
                    (Put(out[i].after, Run(k)).n = k)
                        <=> (k <= Cap(out[i].before) + out[i].before.pos)

\* a put of two bytes was refused, a pull dropped bytes and kept one, and
\* the same put then went through
C15_Witness ==
    \E i \in 1..(Len(out) - 2) :
        /\ out[i].op = "put"
        /\ Len(out[i].arg) = 2
        /\ out[i].n = 0
        /\ out[i + 1].op = "pull"
        /\ Len(out[i + 1].after.buf) = 1
        /\ out[i + 2].op = "put"
        /\ out[i + 2].arg = out[i].arg
        /\ out[i + 2].n = 2

----------------------------------------------------------------------------
(* SpecPut: the typed writes on a stream made with with_capacity.  out is  *)
(* the log of the calls: the bytes of the value, the bool returned, the    *)
(* stream before and after.                                                *)

\* capacities: the small ones, and some with room for the wide values
PutCaps == (0..MaxCap) \cup {8, 16, 32, 48}

\* the values written: 0x0102, 0x01020304 (as a u32 and as a u64)
U8Values == {0, 255}
U16Value == 258
U32Value == 16909060
U64Value == 16909060

InitPut ==
    /\ \E c \in PutCaps : bs = WithCapacity(c)
    /\ marks = {}
    /\ op = "with_capacity"
    /\ ret = None
    /\ call = Idle
    /\ inp = <<>>
    /\ out = <<>>

\* the log entry of a typed write that returned r
Written(name, bytes, r) ==
    [op |-> name, bytes |-> bytes, ok |-> r.ok, before |-> bs, after |-> r.bs]

PutU8Call ==
    /\ Len(out) < MaxWrites
    /\ \E b \in U8Values : \E r \in {PutU8(bs, b)} :
        /\ bs' = r.bs
        /\ op' = "put_u8"
        /\ out' = Append(out, Written("put_u8", <<b>>, r))
        /\ UNCHANGED <<marks, ret, call, inp>>

PutU16Call ==
    /\ Len(out) < MaxWrites
    /\ \E r \in {PutU16(bs, U16Value)} :
        /\ bs' = r.bs
        /\ op' = "put_u16"
        /\ out' = Append(out, Written("put_u16", <<1, 2>>, r))
        /\ UNCHANGED <<marks, ret, call, inp>>

PutU32Call ==
    /\ Len(out) < MaxWrites
    /\ \E r \in {PutU32(bs, U32Value)} :
        /\ bs' = r.bs
        /\ op' = "put_u32"
        /\ out' = Append(out, Written("put_u32", <<1, 2, 3, 4>>, r))
        /\ UNCHANGED <<marks, ret, call, inp>>

PutU64Call ==
    /\ Len(out) < MaxWrites
    /\ \E r \in {PutU64(bs, U64Value)} :
        /\ bs' = r.bs
        /\ op' = "put_u64"
        /\ out' = Append(out, Written("put_u64", <<0, 0, 0, 0, 1, 2, 3, 4>>, r))
        /\ UNCHANGED <<marks, ret, call, inp>>

Put16Call ==
    /\ Len(out) < MaxWrites
    /\ \E r \in {Put16(bs, Run(16))} :
        /\ bs' = r.bs
        /\ op' = "put_16"
        /\ out' = Append(out, Written("put_16", Run(16), r))
        /\ UNCHANGED <<marks, ret, call, inp>>

Put32Call ==
    /\ Len(out) < MaxWrites
    /\ \E r \in {Put32(bs, Run(32))} :
        /\ bs' = r.bs
        /\ op' = "put_32"
        /\ out' = Append(out, Written("put_32", Run(32), r))
        /\ UNCHANGED <<marks, ret, call, inp>>

NextPut ==
    \/ PutU8Call
    \/ PutU16Call
    \/ PutU32Call
    \/ PutU64Call
    \/ Put16Call
    \/ Put32Call

SpecPut == InitPut /\ [][NextPut]_vars

(* C18: each typed write put_u8, put_u16, put_u32, put_u64, put_16, put_32 *)
(* returns true exactly when the bytes of the value (1, 2, 4, 8, 16, 32 of *)
(* them, most significant first) were appended to the buffer, and false    *)
(* exactly when nothing was appended because the room left was too small.  *)
C18_TypedPutResult ==
    \A i \in 1..Len(out) :
        LET e == out[i]
            appended == e.after = [e.before EXCEPT !.buf = e.before.buf \o e.bytes]
            nothing == e.after = e.before /\ Cap(e.before) < Len(e.bytes)
        IN  /\ e.ok <=> appended
            /\ ~e.ok <=> nothing

----------------------------------------------------------------------------
(* SpecRetry: a message arrives in two pieces.  The caller puts the first  *)
(* piece and calls the top-level parse; when that returns None it puts the *)
(* rest and calls the parse again on the same stream.                      *)

\* complete messages: "G / H\r\n\r\n", "G / H\r\nk: v\r\n\r\n",
\* "G / H\r\nContent-Length: 1\r\n\r\nx", the frames of "abc" without and
\* with a mask, and an empty frame
RetryMessages ==
    << [kind |-> "http", bytes |-> StartLines[1] \o CRLF],
       [kind |-> "http", bytes |-> StartLines[1] \o LineBytes(1) \o CRLF],
       [kind |-> "http", bytes |-> StartLines[1] \o LineBytes(2) \o CRLF \o <<120>>],
       [kind |-> "ws", bytes |-> <<129, 3, 97, 98, 99>>],
       [kind |-> "ws", bytes |-> <<129, 131, 1, 2, 3, 4, 97, 98, 99>>],
       [kind |-> "ws", bytes |-> <<129, 0>>] >>

\* parse_http_request or parse_frame, by the kind of the message
TopParse(kind, s, build) ==
    IF kind = "http"
    THEN CHOOSE t \in {[bs |-> r.bs, some |-> r.some, val |-> r.req, panic |-> r.panic] :
                          r \in {ParseHttpRequest(s)}} : TRUE
    ELSE CHOOSE t \in {[bs |-> r.bs, some |-> r.some, val |-> r.frame, panic |-> r.panic] :
                          r \in {ParseFrame(s, build)}} : TRUE

InitRetry ==
    /\ \E m \in 1..Len(RetryMessages), build \in Builds :
        \E cut \in 0..(Len(RetryMessages[m].bytes) - 1) :
            /\ inp = [kind |-> RetryMessages[m].kind, bytes |-> RetryMessages[m].bytes,
                      cut |-> cut, build |-> build]
            /\ bs = WithCapacity(Len(inp.bytes))
    /\ marks = {}
    /\ op = "with_capacity"
    /\ ret = None
    /\ call = Idle
    /\ out = <<>>

\* put of the first piece, and of the rest once a parse has returned None
RetryPut ==
    /\ \/ op = "with_capacity"
       \/ op = "parse" /\ Len(out) = 1 /\ ~out[1].some
    /\ \E data \in {IF op = "with_capacity" THEN Slice(inp.bytes, 0, inp.cut)
                    ELSE Slice(inp.bytes, inp.cut, Len(inp.bytes))} :
        /\ bs' = Put(bs, data).bs
        /\ op' = "put"
        /\ UNCHANGED <<marks, ret, call, inp, out>>

\* the top-level parse on the stream as it is
RetryParse ==
    /\ op = "put"
    /\ \E r \in {TopParse(inp.kind, bs, inp.build)} :
        /\ bs' = r.bs
        /\ op' = IF r.panic THEN "panic" ELSE "parse"
        /\ out' = Append(out, [some |-> r.some, val |-> r.val, panic |-> r.panic,
                               pos0 |-> bs.pos, pos1 |-> r.bs.pos])
        /\ UNCHANGED <<marks, ret, call, inp>>

NextRetry ==
    \/ RetryPut
    \/ RetryParse

SpecRetry == InitRetry /\ [][NextRetry]_vars

\* the one parse of the complete message
WholeParse == TopParse(inp.kind, Wrap(inp.bytes, Len(inp.bytes)), inp.build)

(* C17: streaming retry.  When parse_http_request (or parse_frame) has     *)
(* returned nothing because the buffer held only a proper prefix of a      *)
(* valid message, then after the missing bytes are put, the same parse     *)
(* called again on the same buffer returns what one parse of the complete  *)
(* message returns.                                                        *)
C17_RetryParses ==
    (Len(out) = 2 /\ WholeParse.some) =>
        /\ out[2].some
        /\ out[2].val = WholeParse.val

----------------------------------------------------------------------------
\* the first index j of slice whose byte is not the byte of buf at p + j
\* (p bytes skipped), for want of a byte or for a different one; 0 if none
FirstBad(slice, buf, p) ==
    LET bad == {j \in 1..Len(slice) : p + j > Len(buf) \/ buf[p + j] # slice[j]}
    IN  IF bad = {} THEN 0 ELSE CHOOSE j \in bad : \A h \in bad : j <= h

(* C1: exact and string fail exactly when a byte of the literal is missing *)
(* or different; they then return the error of that byte (Unexpected at    *)
(* its offset, expecting it) and leave the position where the call found   *)
(* it.  maybe never fails, and when it yields absent the position is where *)
(* the call found it.                                                      *)
C1_AtomicFailure ==
    (call.pc = "done" /\ op \in {"exact", "string", "maybe"}) =>
        LET m == Steps[call.step]
            j == FirstBad(m.a, bs.buf, call.pos0)
        IN  /\ op \in {"exact", "string"} =>
                /\ ret.ok <=> (j = 0)
                /\ ~ret.ok =>
                    /\ bs.pos = call.pos0
                    /\ ret.err = Unexpected(call.pos0 + j - 1, m.a[j])
            /\ op = "maybe" =>
                /\ ret.ok
                /\ ret.val = Absent => bs.pos = call.pos0

\* exact, started past the head of the stream, failed on a byte that is
\* there and differs, after bytes it had consumed
C1_Witness ==
    /\ call.pc = "done"
    /\ op = "exact"
    /\ ~ret.ok
    /\ call.pos0 > 0
    /\ ret.err.offset > call.pos0
    /\ ret.err.offset < Len(bs.buf)

(* C2: repeat(step) returns Ok.  When its k-th application of step fails,  *)
(* the position is the mark taken just before that application, and the    *)
(* value is the list of the values of the k-1 applications before it, in   *)
(* order, each started where the one before it stopped.                    *)
C2_RepeatAtomic ==
    (call.pc = "done" /\ op = "repeat") =>
        LET this == RepeatSubs[call.step]
            k == Len(call.hist)
            at(i) == DoMatch(this, [bs EXCEPT !.pos = call.hist[i]])
        IN  /\ ret.ok
            /\ k >= 1
            /\ call.hist[1] = call.pos0
            /\ bs.pos = call.hist[k]
            /\ ~at(k).ok
            /\ Len(ret.val) = k - 1
            /\ \A i \in 1..(k - 1) :
                /\ at(i).ok
                /\ at(i).val = ret.val[i]
                /\ at(i).bs.pos = call.hist[i + 1]

\* repeat returned two values, and the application that failed had
\* consumed bytes before it failed
C2_Witness ==
    /\ call.pc = "done"
    /\ op = "repeat"
    /\ Len(ret.val) >= 2
    /\ DoMatch(RepeatSubs[call.step], bs).bs.pos > bs.pos

----------------------------------------------------------------------------
(* C10: after any sequence of wrap/with_capacity, put, get/get_u*/next,    *)
(* mark, reset, pull and clear, the read position is at most the length    *)
(* of the buffer.                                                          *)
C10_PosWithinLength == bs.pos <= Len(bs.buf)

\* a stale Mark beyond the length (taken before a clear or a pull) was
\* handed to reset, which refused it, and a mark at the end was taken too
C10_Witness ==
    /\ op = "reset"
    /\ ret.num > Len(bs.buf)
    /\ bs.pos < ret.num

----------------------------------------------------------------------------
(* C11: get(n) is all-or-nothing.  If pos + n <= length it returns the n   *)
(* bytes at [pos, pos + n) and advances pos by n; otherwise it returns     *)
(* nothing and leaves pos and the buffer as they were.  (n is the usize    *)
(* the caller passed: a negative n stands for 2^64 + n, which is beyond    *)
(* every length.)                                                          *)
C11_GetAllOrNothing ==
    [][(op' \in {"get", "panic"}) =>
            IF ret'.num >= 0 /\ bs.pos + ret'.num <= Len(bs.buf)
            THEN /\ op' = "get"
                 /\ ret'.some
                 /\ ret'.val = Slice(bs.buf, bs.pos, bs.pos + ret'.num)
                 /\ bs' = [bs EXCEPT !.pos = bs.pos + ret'.num]
            ELSE /\ op' = "get"
                 /\ ~ret'.some
                 /\ bs' = bs]_vars

----------------------------------------------------------------------------
(* C12: reset(mark) only rewinds.  It sets pos to the mark when the mark   *)
(* is at or before pos and leaves pos alone otherwise, so in every         *)
(* interleaving of mark, get, pull, clear and reset no reset takes pos     *)
(* forward; the bytes are not touched.                                     *)
C12_ResetRewindOnly ==
    [][(op' = "reset") =>
            /\ bs'.pos = IF ret'.num <= bs.pos THEN ret'.num ELSE bs.pos
            /\ bs'.pos <= bs.pos
            /\ bs'.buf = bs.buf
            /\ bs'.capacity = bs.capacity]_vars

\* a reset was given a Mark that lies ahead of the position, at a byte
\* the stream still holds (the Mark was taken before a pull), and the
\* position, past the start, stayed where it was
C12_Witness ==
    /\ op = "reset"
    /\ bs.pos > 0
    /\ ret.num > bs.pos
    /\ ret.num <= Len(bs.buf)

----------------------------------------------------------------------------
(* C13: before(delimiter).  If the delimiter occurs at or after pos, the   *)
(* result is the bytes from pos up to, not including, its first            *)
(* occurrence, and pos is left at the index of that delimiter; if it does  *)
(* not occur in the rest of the buffer, the result is NotFound and pos is  *)
(* where the call found it.                                                *)
C13_Before ==
    (call.pc = "done" /\ op = "before") =>
        LET d == Steps[call.step].a
            hits == {i \in (call.pos0 + 1)..Len(bs.buf) : bs.buf[i] = d}
            first == CHOOSE i \in hits : \A j \in hits : i <= j
        IN  IF hits # {}
            THEN /\ ret.ok
                 /\ ret.val = SubSeq(bs.buf, call.pos0 + 1, first - 1)
                 /\ bs.pos = first - 1
                 /\ bs.buf[bs.pos + 1] = d
            ELSE /\ ~ret.ok
                 /\ ret.err = NotFound(call.pos0, d)
                 /\ bs.pos = call.pos0

\* before, started past the head of the stream, returned a byte or more
\* and stopped at the first of two delimiters
C13_Witness ==
    /\ call.pc = "done"
    /\ op = "before"
    /\ call.pos0 > 0
    /\ ret.ok
    /\ Len(ret.val) >= 1
    /\ \E i \in (bs.pos + 2)..Len(bs.buf) : bs.buf[i] = Steps[call.step].a

----------------------------------------------------------------------------
(* C14: left.then(right) runs left, then right, and is not atomic.  If     *)
(* left fails, right is not run and the result is left's error as it is;   *)
(* if right fails after left succeeded, the result is right's error and    *)
(* the bytes left consumed stay consumed (pos is not taken back to where   *)
(* the call started); on success the value is the pair (left's, right's).  *)
C14_ThenNotAtomic ==
    (call.pc = "done" /\ op = "then") =>
        \A l \in {DoMatch(Steps[call.step].a, [bs EXCEPT !.pos = call.pos0])} :
        \A r \in {IF l.ok THEN DoMatch(Steps[call.step].b, l.bs) ELSE l} :
            IF ~l.ok
            THEN /\ ~ret.ok
                 /\ ret.err = l.err
                 /\ bs = l.bs
            ELSE IF ~r.ok
            THEN /\ ~ret.ok
                 /\ ret.err = r.err
                 /\ bs = r.bs
                 /\ bs.pos >= l.bs.pos
            ELSE /\ ret.ok
                 /\ ret.val = <<l.val, r.val>>
                 /\ bs = r.bs

\* bytes(2).then(exact("ab")) failed in exact, which rewound to its own
\* mark: the two bytes that bytes(2) read stay read
C14_Witness ==
    /\ call.pc = "done"
    /\ op = "then"
    /\ Steps[call.step].b.k = "exact"
    /\ ~ret.ok
    /\ ret.err.kind = "Unexpected"
    /\ bs.pos = call.pos0 + 2

----------------------------------------------------------------------------
(* C16: every application of a combinator terminates on a finite buffer.   *)
(* In particular every call of repeat(step) that has entered its loop      *)
(* returns, also when step can succeed without reading a byte (unit,       *)
(* maybe, until, bytes(0), an inner repeat).                               *)
C16_RepeatTerminates == (call.pc = "loop") ~> (call.pc = "done")

\* the same of the sub-steps that read a byte or more whenever they succeed
C16_ReadingRepeatTerminates ==
    (call.pc = "loop" /\ call.step <= 3) ~> (call.pc = "done")

====
